---- MODULE Spec2Model ----
(***************************************************************************)
(* IdentifyPrimaryObjects (cellprofiler/modules/identifyprimaryobjects.py) *)
(* as a state machine: run() thresholds a grayscale image, labels the      *)
(* foreground, separates neighbouring objects, filters on border and size, *)
(* relabels and stores the label maps.                                     *)
(*                                                                         *)
(* Arrays are functions over the pixels 1..Rows*Cols in raster (C) order.  *)
(* Intensities are the integers 0..MaxI, standing for the floats 0..1.     *)
(***************************************************************************)
EXTENDS Integers, Sequences, FiniteSets, TLC

\* ---------------------------------------------------------------- bounds
Rows == 5
Cols == 5
\* intensity levels of the input images: 0..MaxI
MaxI == 2
\* fixed-point resolution: one intensity level is Unit steps, 1.0 is MaxI*Unit
Unit == 8
One == MaxI * Unit
\* the states of the global random generator: 0..MaxRng
MaxRng == 1

NPix == Rows * Cols
Pix == 1..NPix
RowOf(p) == (p - 1) \div Cols
ColOf(p) == (p - 1) % Cols
At(r, c) == r * Cols + c + 1

Abs(x) == IF x < 0 THEN -x ELSE x
Min2(a, b) == IF a < b THEN a ELSE b
Max2(a, b) == IF a > b THEN a ELSE b
SetMin(S) == CHOOSE x \in S : \A y \in S : x <= y
SetMax(S) == CHOOSE x \in S : \A y \in S : x >= y

\* np.ones((3,3),bool): the 8-connected neighbourhood used with scipy.ndimage.label
Nbr8 == [p \in Pix |-> {q \in Pix : /\ q # p
                                    /\ Abs(RowOf(q) - RowOf(p)) <= 1
                                    /\ Abs(ColOf(q) - ColOf(p)) <= 1}]
\* the 4-connected cross: scipy's default structuring element (binary_erosion)
Nbr4 == [p \in Pix |-> {q \in Pix : Abs(RowOf(q) - RowOf(p)) + Abs(ColOf(q) - ColOf(p)) = 1}]

\* labeled_image[0,:], [:,0], [shape[0]-1,:], [:,shape[1]-1]
ArrayBorder == {p \in Pix : \/ RowOf(p) = 0 \/ ColOf(p) = 0
                            \/ RowOf(p) = Rows - 1 \/ ColOf(p) = Cols - 1}

Zeros == [p \in Pix |-> 0]
NonZero(a) == {p \in Pix : a[p] # 0}
LabelsOf(a) == {a[p] : p \in NonZero(a)}
ArrayMax(a) == SetMax({a[p] : p \in Pix})
\* a[cond] = 0
ZeroWhere(a, S) == [p \in Pix |-> IF p \in S THEN 0 ELSE a[p]]

\* ------------------------------------------------- connected components
RECURSIVE Grow(_, _, _)
\* the pixels of `allowed' reachable from S through the neighbourhood nbr
Grow(S, nbr, allowed) ==
    LET N == S \cup {q \in allowed : \E p \in S : q \in nbr[p]}
    IN  IF N = S THEN S ELSE Grow(N, nbr, allowed)

RECURSIVE Components(_, _, _)
\* the components of `remaining', in the order of their first pixel in raster order
Components(remaining, nbr, acc) ==
    IF remaining = {} THEN acc
    ELSE LET c == Grow({SetMin(remaining)}, nbr, remaining)
         IN  Components(remaining \ c, nbr, Append(acc, c))

\* scipy.ndimage.label(binary, structure): components numbered 1.. in raster order
label(fg, nbr) ==
    LET comps == Components(fg, nbr, << >>)
    IN  [labels |-> [p \in Pix |-> IF p \in fg
                                   THEN CHOOSE i \in 1..Len(comps) : p \in comps[i]
                                   ELSE 0],
         count  |-> Len(comps)]

\* ------------------------------------------------------------ cpmorphology
\* fill_labeled_holes: a background region enclosed by a single object's
\* foreground takes that object's label
fill_labeled_holes(labels) ==
    LET bg == Pix \ NonZero(labels)
        regions == Components(bg, Nbr4, << >>)
        Around(R) == {labels[q] : q \in {x \in NonZero(labels) : \E p \in R : x \in Nbr4[p]}}
        IsHole(R) == R \cap ArrayBorder = {} /\ Cardinality(Around(R)) = 1
        FillOf(p) == LET i == CHOOSE j \in 1..Len(regions) : p \in regions[j]
                     IN  IF IsHole(regions[i])
                         THEN CHOOSE l \in Around(regions[i]) : TRUE
                         ELSE 0
    IN  [p \in Pix |-> IF labels[p] # 0 THEN labels[p] ELSE FillOf(p)]

\* relabel: compact the label ids in use to 1..n, keeping their order
relabel(labels) ==
    LET used == LabelsOf(labels)
    IN  [labels |-> [p \in Pix |-> IF labels[p] = 0 THEN 0
                                   ELSE Cardinality({l \in used : l <= labels[p]})],
         count  |-> Cardinality(used)]
\* ------------------------------------------------------- filter_on_border
\* border_labels: the labels read along row 0, column 0, the last row and the
\* last column (a corner pixel is read twice)
BorderReadsNoRight(labels, l) ==
      Cardinality({p \in Pix : RowOf(p) = 0 /\ labels[p] = l})
    + Cardinality({p \in Pix : ColOf(p) = 0 /\ labels[p] = l})
    + Cardinality({p \in Pix : RowOf(p) = Rows - 1 /\ labels[p] = l})
BorderReads(labels, l) ==
      Cardinality({p \in Pix : RowOf(p) = 0 /\ labels[p] = l})
    + Cardinality({p \in Pix : ColOf(p) = 0 /\ labels[p] = l})
    + Cardinality({p \in Pix : RowOf(p) = Rows - 1 /\ labels[p] = l})
    + Cardinality({p \in Pix : ColOf(p) = Cols - 1 /\ labels[p] = l})

\* scipy.ndimage.binary_erosion(mask): default cross structure, border_value 0
binary_erosion(mask) ==
    [p \in Pix |-> mask[p] /\ Cardinality(Nbr4[p]) = 4 /\ \A q \in Nbr4[p] : mask[q]]

\* np.logical_and(np.logical_not(binary_erosion(mask)), mask)
MaskBorderNone(mask) == {}
MaskBorder(mask) == {p \in Pix : mask[p] /\ ~binary_erosion(mask)[p]}

MaskReads(labels, mask, l) == Cardinality({p \in MaskBorder(mask) : labels[p] = l})

\* labeled_image[histogram[labeled_image] > 0] = 0 when any(histogram[1:] > 0)
ZeroCounted(labels, histogram) ==
    IF \E l \in 1..ArrayMax(labels) : histogram[l] > 0
    THEN [p \in Pix |-> IF histogram[labels[p]] > 0 THEN 0 ELSE labels[p]]
    ELSE labels

filter_on_border_skipped(exclude_border_objects, image, labels) == labels
filter_on_border(exclude_border_objects, image, labels) ==
    IF exclude_border_objects
    THEN LET histogram == [l \in 0..ArrayMax(labels) |-> BorderReads(labels, l)]
         IN  IF \E l \in 1..ArrayMax(labels) : histogram[l] > 0
             THEN ZeroCounted(labels, histogram)
             ELSE IF image.has_mask
                  THEN ZeroCounted(labels,
                           [l \in 0..ArrayMax(labels) |-> MaskReads(labels, image.mask, l)])
                  ELSE labels
    ELSE labels

\* --------------------------------------------------------- filter_on_size
\* np.pi as the fraction 355/113: exact for the comparison of an integer
\* area with pi*d*d/4 for every diameter d <= 40
PiNum == 355
PiDen == 113
\* area < np.pi * (d * d) / 4
AreaBelowRadius(area, d) == area * PiDen < PiNum * d * d
AreaBelow(area, d) == 4 * area * PiDen < PiNum * d * d
\* area > np.pi * (d * d) / 4
AreaAbove(area, d) == 4 * area * PiDen > PiNum * d * d

\* scipy.ndimage.measurements.sum(ones, labeled_image, range(0, object_count+1))
Areas(labels, object_count) ==
    [l \in 0..object_count |-> Cardinality({p \in Pix : labels[p] = l})]

\* returns (labeled_image, small_removed_labels); areas[labeled_image] raises
\* IndexError when a label exceeds object_count
filter_on_size_late_copy(exclude_size, size_min, size_max, labels, object_count) ==
    LET areas == [l \in 0..ArrayMax(labels) |-> Cardinality({p \in Pix : labels[p] = l})]
        kept == [p \in Pix |-> IF exclude_size /\ object_count > 0
                                    /\ (AreaBelow(areas[labels[p]], size_min)
                                        \/ AreaAbove(areas[labels[p]], size_max))
                                THEN 0 ELSE labels[p]]
    IN  [labeled_image |-> kept, small_removed_labels |-> kept, exception |-> "None"]
filter_on_size(exclude_size, size_min, size_max, labels, object_count) ==
    IF exclude_size /\ object_count > 0
    THEN IF \E p \in Pix : labels[p] > object_count
         THEN [labeled_image |-> labels, small_removed_labels |-> labels,
               exception |-> "IndexError"]
         ELSE LET areas == Areas(labels, object_count)
                  small == {p \in Pix : AreaBelow(areas[labels[p]], size_min)}
                  large == {p \in Pix : AreaAbove(areas[labels[p]], size_max)}
                  small_removed == ZeroWhere(labels, small)
              IN  [labeled_image |-> ZeroWhere(small_removed, large),
                   small_removed_labels |-> small_removed,
                   exception |-> "None"]
    ELSE [labeled_image |-> labels, small_removed_labels |-> labels,
          exception |-> "None"]
\* ------------------------------------------------------------ smooth_image
\* rationals <<numerator, denominator>>, denominator > 0
RECURSIVE Gcd(_, _)
Gcd(a, b) == IF b = 0 THEN a ELSE Gcd(b, a % b)
Rat(n, d) == LET g == Gcd(Abs(n), d) IN IF g = 0 THEN <<0, 1>> ELSE <<n \div g, d \div g>>
\* int(x): truncation toward zero
Trunc(n, d) == IF n >= 0 THEN n \div d ELSE -((-n) \div d)

\* calc_smoothing_filter_size: 2.35*size_range.min/3.5, or the manual value
calc_smoothing_filter_size(settings) ==
    IF settings.automatic_smoothing
    THEN Rat(47 * settings.size_min, 70)
    ELSE Rat(settings.smoothing_filter_size, 1)

\* round(16 * exp(-x)) for x given in thousandths
Exp16(x1000) ==
    CASE x1000 <= 31   -> 16  [] x1000 <= 98   -> 15  [] x1000 <= 169  -> 14
      [] x1000 <= 246  -> 13  [] x1000 <= 330  -> 12  [] x1000 <= 421  -> 11
      [] x1000 <= 521  -> 10  [] x1000 <= 632  -> 9   [] x1000 <= 757  -> 8
      [] x1000 <= 900  -> 7   [] x1000 <= 1067 -> 6   [] x1000 <= 1268 -> 5
      [] x1000 <= 1519 -> 4   [] x1000 <= 1856 -> 3   [] x1000 <= 2367 -> 2
      [] x1000 <= 3465 -> 1   [] OTHER -> 0

\* f[k] = exp(-0.5 * k**2 / sigma**2) in sixteenths (the factor
\* 1/(sqrt(2 pi) sigma) cancels in the edge-corrected quotient)
GaussWeight(sigma, k) ==
    Exp16((1000 * k * k * sigma[2] * sigma[2]) \div (2 * sigma[1] * sigma[1]))

\* the smoothing filter applied to the image: the input itself when the filter
\* size is 0, else fgaussian(masked_image) / fgaussian(mask) with the kernel
\* truncated to +-max(int(filter_size / 2), 1) and zero padding
smooth_image(settings, image, mask, sigma) ==
    LET filter_size == calc_smoothing_filter_size(settings)
        half == Max2(Trunc(filter_size[1], 2 * filter_size[2]), 1)
        w == [k \in 0..half |-> GaussWeight(sigma, k)]
        Win(p) == {q \in Pix : /\ Abs(RowOf(q) - RowOf(p)) <= half
                               /\ Abs(ColOf(q) - ColOf(p)) <= half}
        W(p, q) == w[Abs(RowOf(q) - RowOf(p))] * w[Abs(ColOf(q) - ColOf(p))]
        RECURSIVE Sum(_, _, _)
        Sum(p, S, masked) ==
            IF S = {} THEN 0
            ELSE LET q == CHOOSE x \in S : TRUE
                 IN  (IF mask[q] THEN W(p, q) * (IF masked THEN image[q] ELSE 1) ELSE 0)
                     + Sum(p, S \ {q}, masked)
        Quot(p) == LET edge == Sum(p, Win(p), FALSE)
                   IN  IF edge = 0 THEN 0 ELSE Sum(p, Win(p), TRUE) \div edge
    IN  IF filter_size[1] = 0 THEN image ELSE [p \in Pix |-> Quot(p)]
\* ------------------------------------------------------------ method names
UN_INTENSITY == "Intensity"
UN_SHAPE == "Shape"
UN_LOG == "Laplacian of Gaussian"
UN_NONE == "None"
WA_INTENSITY == "Intensity"
WA_DISTANCE == "Distance"
WA_NONE == "None"

\* -------------------------------------------------------------- get_maxima
\* strel_disk(radius): the offsets (dr, dc) with dr*dr + dc*dc <= radius*radius
\* on the grid -int(radius)..int(radius)
strel_disk(radius) ==
    LET iradius == Trunc(radius[1], radius[2])
    IN  {d \in (-iradius..iradius) \X (-iradius..iradius) :
            (d[1] * d[1] + d[2] * d[2]) * radius[2] * radius[2] <= radius[1] * radius[1]}

\* scipy.ndimage.maximum_filter(a, footprint=maxima_mask): the reflected border
\* repeats pixels that are already under the (symmetric, convex) footprint
maximum_filter(a, footprint) ==
    [p \in Pix |-> SetMax({a[q] : q \in {x \in Pix :
                       <<RowOf(x) - RowOf(p), ColOf(x) - ColOf(p)>> \in footprint}})]

\* binary_shrink: every cluster of touching pixels is eroded to a single pixel;
\* the possible results, one representative per 8-connected cluster
RECURSIVE ShrinkChoices(_, _)
ShrinkChoices(clusters, i) ==
    IF i > Len(clusters) THEN {{}}
    ELSE {rest \cup {r} : rest \in ShrinkChoices(clusters, i + 1), r \in clusters[i]}

binary_shrink(binary) == ShrinkChoices(Components(binary, Nbr8, << >>), 1)

\* get_maxima at full resolution (image_resize_factor = 1.0): the pixels that
\* are not smaller than any pixel under the footprint and are non-zero
MaximaCandidatesWithZeros(image, maxima_mask) ==
    LET maximum_filtered_image == maximum_filter(image, maxima_mask)
    IN  {p \in Pix : image[p] >= maximum_filtered_image[p]}
MaximaCandidates(image, maxima_mask) ==
    LET maximum_filtered_image == maximum_filter(image, maxima_mask)
        maxima_image == [p \in Pix |-> IF image[p] < maximum_filtered_image[p]
                                       THEN 0 ELSE image[p]]
    IN  {p \in Pix : maxima_image[p] > 0}

\* the maxima image for one result `shrunk' of binary_shrink
get_maxima_unmasked(image, labeled_image, maxima_mask, shrunk) ==
    LET binary_maxima_image == MaximaCandidates(image, maxima_mask)
    IN  [p \in Pix |-> IF p \in binary_maxima_image /\ p \in shrunk
                       THEN image[p] ELSE 0]
get_maxima(image, labeled_image, maxima_mask, shrunk) ==
    LET binary_maxima_image == MaximaCandidates(image, maxima_mask)
    IN  [p \in Pix |-> IF p \in binary_maxima_image /\ p \in shrunk /\ labeled_image[p] # 0
                       THEN image[p] ELSE 0]
\* ---------------------------------------------------- distance transform
\* scipy.ndimage.distance_transform_edt(labeled_image > 0): the squared
\* distance to the nearest background pixel (0 on the background)
DistanceSquared(fg) ==
    LET bg == Pix \ fg
        D2(p, q) ==   (RowOf(p) - RowOf(q)) * (RowOf(p) - RowOf(q))
                    + (ColOf(p) - ColOf(q)) * (ColOf(p) - ColOf(q))
    IN  [p \in Pix |-> IF p \in bg \/ bg = {} THEN 0
                       ELSE SetMin({D2(p, q) : q \in bg})]

\* ------------------------------------------------------------ np.random
\* The state of the global generator is a number: 0 is the state that
\* np.random.seed(0) sets, RngAfter(0) the state one draw later.
\* line 827: np.random.seed(0)
seed_skipped(state) == state
seed(state) == 0

\* np.random.uniform(0, .001, shape) drawn in `state': the rank of each pixel's
\* draw among the draws (a permutation of the pixels that the state determines)
uniform(state) == [p \in Pix |-> ((p * 7 + state * 3) % NPix) + 1]

\* the generator state after one draw of the image's shape
RngAfter(state) == (state + 1) % (MaxRng + 1)

\* the distance image in an order-preserving integer encoding: a larger
\* distance gives a larger value; equal distances are ordered by the jitter
\* added to them (every draw is below .001), and are equal without jitter
DistanceImage(fg, jitter) ==
    LET d2 == DistanceSquared(fg)
    IN  [p \in Pix |-> d2[p] * (NPix + 1) + jitter[p]]

\* ------------------------------------------------------- cpmath.filter
\* stretch(image, mask): the masked pixels rescaled linearly to 0..1
stretch(image, mask) ==
    LET vals == {image[p] : p \in {q \in Pix : mask[q]}}
        lo == IF vals = {} THEN 0 ELSE SetMin(vals)
        hi == IF vals = {} THEN 0 ELSE SetMax(vals)
    IN  [p \in Pix |-> IF ~mask[p] \/ hi = lo THEN image[p]
                       ELSE ((image[p] - lo) * One) \div (hi - lo)]

\* laplacian_of_gaussian(image, mask, size, sigma): positive where the image
\* is lower than its surroundings
laplacian_of_gaussian(image, mask) ==
    LET Sum8(p) == LET N == {q \in Nbr8[p] : mask[q]}
                   IN  Cardinality({q \in N : image[q] > image[p]})
                     - Cardinality({q \in N : image[q] < image[p]})
    IN  [p \in Pix |-> IF mask[p] THEN Sum8(p) ELSE 0]

\* otsu(data, 0, 1, 256): some threshold between 0 and 1
OtsuLevels == {k * Unit : k \in 0..MaxI}
\* ---------------------------------------------------------------- watershed
\* markers = np.zeros(shape, np.int16): a marker id is stored in 16 bits
MarkerBits == 16
Int16(x) == ((x + 2^(MarkerBits - 1)) % 2^MarkerBits) - 2^(MarkerBits - 1)

RECURSIVE Flood(_, _, _, _, _)
\* queue entries are <<cost, age, pixel>>; the entry with the least cost, and
\* among those the oldest, is taken next and gives its label to its unlabeled
\* neighbours inside the mask, which enter the queue in raster order
Flood(queue, out, age, cost, inside) ==
    IF queue = {} THEN out
    ELSE LET e == CHOOSE x \in queue : \A y \in queue :
                      x[1] < y[1] \/ (x[1] = y[1] /\ x[2] <= y[2])
             new == {q \in Nbr8[e[3]] : out[q] = 0 /\ q \in inside}
             Rank(q) == Cardinality({x \in new : x <= q})
         IN  Flood((queue \ {e}) \cup {<<cost[q], age + Rank(q), q>> : q \in new},
                   [p \in Pix |-> IF p \in new THEN out[e[3]] ELSE out[p]],
                   age + Cardinality(new), cost, inside)

\* fast_watershed(image, markers, np.ones((3,3),bool), mask)
watershed(cost, markers, inside) ==
    LET seeds == NonZero(markers)
        Rank(q) == Cardinality({x \in seeds : x <= q})
    IN  Flood({<<cost[q], Rank(q), q>> : q \in seeds}, markers,
              Cardinality(seeds), cost, inside)

\* ------------------------------------------- separate_neighboring_objects
\* image_resize_factor and maxima_suppression_size (lines 760-772)
LowRes(settings) == settings.low_res_maxima /\ settings.size_min > 10

image_resize_factor(settings) ==
    IF LowRes(settings) THEN Rat(10, settings.size_min) ELSE <<1, 1>>

suppression_size(settings) ==
    IF LowRes(settings)
    THEN IF settings.automatic_suppression THEN <<7, 1>>
         ELSE Rat(20 * settings.maxima_suppression_size + settings.size_min,
                  2 * settings.size_min)
    ELSE IF settings.automatic_suppression THEN Rat(2 * settings.size_min, 3)
         ELSE Rat(settings.maxima_suppression_size, 1)

\* strel_disk(maxima_suppression_size - .5)
maxima_mask(settings) ==
    LET m == suppression_size(settings)
    IN  strel_disk(Rat(2 * m[1] - m[2], 2 * m[2]))

\* the Laplacian of Gaussian response, thresholded at log_threshold
LogImage(settings, image, mask, log_threshold) ==
    LET normalized_image == [p \in Pix |-> One - stretch(image, mask)[p]]
        log_image == stretch(laplacian_of_gaussian(normalized_image, mask), mask)
    IN  [p \in Pix |-> Max2(log_image[p], log_threshold) - log_threshold]

LogThresholds(settings) ==
    IF settings.wants_automatic_log_threshold THEN OtsuLevels
    ELSE {settings.manual_log_threshold}

\* the image whose maxima become the seeds, for each unclumping method
MaximaFields(settings, image, mask, labeled_image, threshold, state) ==
    LET sigma_fs == calc_smoothing_filter_size(settings)
        sigma == Rat(20 * sigma_fs[1], 47 * sigma_fs[2])
        blurred_image == smooth_image(settings, image, mask, sigma)
    IN  CASE settings.unclump_method = UN_LOG ->
               {LogImage(settings, image, mask, t) : t \in LogThresholds(settings)}
          [] settings.unclump_method = UN_INTENSITY ->
               \* maxima_image (blurred_image with the values below threshold
               \* zeroed) is computed and dropped: get_maxima reads blurred_image
               {blurred_image}
          [] settings.unclump_method = UN_SHAPE ->
               {DistanceImage(NonZero(labeled_image), uniform(seed(state)))}
          [] OTHER -> {}
\* lines 755-756: the early return
FastPathBoth(settings) ==
    settings.unclump_method = UN_NONE /\ settings.watershed_method = WA_NONE
FastPath(settings) ==
    settings.unclump_method = UN_NONE \/ settings.watershed_method = WA_NONE

\* lines 775, 815, 823, 834: the unclumping methods with a branch
UnclumpSupported(settings) ==
    settings.unclump_method \in {UN_LOG, UN_INTENSITY, UN_SHAPE}

\* lines 838, 841, 847: the dividing-line methods with a branch
WatershedAny(settings) == TRUE
WatershedSupported(settings) ==
    settings.watershed_method \in {WA_INTENSITY, WA_DISTANCE}

\* line 868: mask = labeled_image != 0
WatershedMaskAll(labeled_image) == Pix
WatershedMask(labeled_image) == NonZero(labeled_image)

\* lines 717-718: with a filter size of 0 smooth_image returns its argument,
\* so blurred_image is the caller's pixel array itself
BlurredIsImage(settings) == calc_smoothing_filter_size(settings)[1] = 0

\* line 880: resized_image = image.copy(); the zeroing of lines 887-891 and
\* 905-906 works on the copy. The array passed to get_maxima, after the call
get_maxima_in_place(image, maxima_image) == maxima_image
get_maxima_argument(image, maxima_image) == image

\* lines 776-780: the diameter that sizes the Laplacian of Gaussian filter; the
\* diameters are integers and / between integers truncates
log_diameter(settings) ==
    IF settings.wants_automatic_log_diameter
    THEN <<(Min2(settings.size_max, settings.size_min * settings.size_min)
            + settings.size_min * 5) \div 6, 1>>
    ELSE <<settings.log_diameter, 1>>

\* lines 837-871: the watershed from the maxima of `field', for one result
\* `shrunk' of binary_shrink
WatershedOutcome(settings, image, labeled_image, field, shrunk, state) ==
    LET fg == NonZero(labeled_image)
        distance_transformed_image ==
            DistanceImage(fg, IF settings.unclump_method = UN_SHAPE
                              THEN uniform(seed(state)) ELSE Zeros)
        watershed_image ==
            IF settings.watershed_method = WA_INTENSITY
            THEN [p \in Pix |-> One - image[p]]
            ELSE [p \in Pix |-> ArrayMax(distance_transformed_image)
                                - distance_transformed_image[p]]
        maxima_image == get_maxima(field, labeled_image, maxima_mask(settings), shrunk)
        labeled_maxima == label(NonZero(maxima_image), Nbr8)
        markers == [p \in Pix |-> Int16(-labeled_maxima.labels[p])]
        watershed_boundaries == watershed(watershed_image, markers,
                                          WatershedMask(labeled_image))
    IN  [labeled_image |-> [p \in Pix |-> -watershed_boundaries[p]],
         object_count |-> labeled_maxima.count,
         maxima_suppression_size |-> suppression_size(settings),
         exception |-> "None", markers |-> markers,
         \* lines 819-822: in Intensity mode get_maxima is handed blurred_image
         pixel_data |-> IF settings.unclump_method = UN_INTENSITY
                           /\ BlurredIsImage(settings)
                        THEN get_maxima_argument(image, maxima_image)
                        ELSE image,
         rng |-> IF settings.unclump_method = UN_SHAPE
                 THEN RngAfter(seed(state)) ELSE state]

\* the outcomes of separate_neighboring_objects(image, mask, labeled_image,
\* object_count, threshold): one per result of binary_shrink and of otsu.
\* state: the state of the global generator at the call; rng: at the return or
\* the raise (the Shape branch seeds and draws before the watershed method is
\* looked at).
separate_neighboring_objects(settings, image, mask, labeled_image, object_count, threshold, state) ==
    LET Raise(e, after) ==
            [labeled_image |-> labeled_image, object_count |-> object_count,
             maxima_suppression_size |-> suppression_size(settings),
             exception |-> e, markers |-> Zeros, pixel_data |-> image,
             rng |-> after]
    IN  IF FastPath(settings)
        THEN {[labeled_image |-> labeled_image, object_count |-> object_count,
               maxima_suppression_size |-> <<7, 1>>, exception |-> "None",
               markers |-> Zeros, pixel_data |-> image, rng |-> state]}
        ELSE IF ~UnclumpSupported(settings)
        THEN \* raise ValueError("..."%s(...)): evaluating s raises NameError
             {Raise("NameError", state)}
        ELSE IF ~WatershedSupported(settings)
        THEN {Raise("NotImplementedError",
                    IF settings.unclump_method = UN_SHAPE
                    THEN RngAfter(seed(state)) ELSE state)}
        ELSE UNION {{WatershedOutcome(settings, image, labeled_image, field, shrunk, state) :
                        shrunk \in binary_shrink(MaximaCandidates(field, maxima_mask(settings)))} :
                    field \in MaximaFields(settings, image, mask, labeled_image,
                                            threshold, state)}

\* ------------------------------------------------------------------ state
VARIABLES
    image,            \* the input cpimage.Image: pixel_data, mask, has_mask
    settings,         \* the module's setting values
    collab,           \* what the threshold collaborators answer for this image
    rng,              \* the state of the global numpy random generator
    pc,               \* where run() is
    exception,        \* the exception that ended run(), "None" if none
    global_threshold, \* run()'s global_threshold
    labeled_image,    \* run()'s labeled_image
    object_count,     \* run()'s object_count
    maxima_suppression_size,
    separate_input,   \* the labeled_image and object_count passed to separate_neighboring_objects
    markers,          \* the marker array given to the watershed
    unedited_labels,
    border_excluded_labeled_image,
    size_excluded_labeled_image,
    size_input,       \* the labeled_image passed to filter_on_size
    small_removed_labels,
    objects,          \* the cellprofiler.objects.Objects added to the object set
    count_measurement, \* the count given to add_object_count_measurements
    result            \* what a function called on its own has returned

vars == <<image, settings, collab, rng, pc, exception, global_threshold,
          labeled_image, object_count, maxima_suppression_size, separate_input,
          markers, unedited_labels, border_excluded_labeled_image,
          size_excluded_labeled_image, size_input, small_removed_labels,
          objects, count_measurement, result>>

inputs == <<image, settings, collab>>

TM_BINARY_IMAGE == "Binary image"
TM_OTSU == "Otsu Global"

\* ----------------------------------------------------------------- inputs
\* the largest object diameter of the settings
MaxDiam == 5
\* the length of the free line of the line images
LineLen == 3

Shell(p) == SetMin({RowOf(p), ColOf(p), Rows - 1 - RowOf(p), Cols - 1 - ColOf(p)})
NShells == (SetMin({Rows, Cols}) + 1) \div 2
MidRow == Rows \div 2

\* concentric images: one intensity level for every shell of the array
ShellImages ==
    {[p \in Pix |-> v[Shell(p)] * Unit] : v \in [0..NShells - 1 -> 0..MaxI]}

\* line images: the first LineLen pixels of the middle row are free, each dark,
\* at the lowest level or at the highest
LineLevels == {0, 1, MaxI}
LineImages ==
    {[p \in Pix |-> IF RowOf(p) = MidRow /\ ColOf(p) < LineLen
                    THEN v[ColOf(p)] * Unit ELSE 0] : v \in [0..LineLen - 1 -> LineLevels]}

\* site images: an L-shaped object of four pixels, a single pixel and a pixel in
\* the last column of the array, no two of them adjacent, each present or absent
SiteL == {At(1, 1), At(2, 1), At(3, 1), At(1, 2)}
SiteQ == {At(3, 3)}
SiteT == {At(1, Cols - 1)}
SiteImages ==
    {[p \in Pix |-> IF p \in UNION on THEN One ELSE 0] : on \in SUBSET {SiteL, SiteQ, SiteT}}

\* band images: a 2x2 block and a single pixel on the first rows and a band of
\* the last two rows, no two of them adjacent, each present or absent
BandBlock == {At(0, 0), At(0, 1), At(1, 0), At(1, 1)}
BandDot == {At(0, 3)}
BandRows == {p \in Pix : RowOf(p) >= Rows - 2}
BandImages ==
    {[p \in Pix |-> IF p \in UNION on THEN One ELSE 0] :
        on \in SUBSET {BandBlock, BandDot, BandRows}}

AllValid == [p \in Pix |-> TRUE]
\* masks with one invalid pixel, in the centre or next to it
InvalidSites == {At(MidRow, Cols \div 2), At(MidRow, (Cols \div 2) - 1)}
Images(pixels) ==
    {[pixel_data |-> d, mask |-> AllValid, has_mask |-> h] :
        d \in pixels, h \in BOOLEAN}
    \cup {[pixel_data |-> d, mask |-> [p \in Pix |-> p # x], has_mask |-> TRUE] :
        d \in pixels, x \in InvalidSites}

\* the answers of the threshold collaborators (get_threshold, otsu) and the
\* binary image of the image set: a uniform threshold of half a level, local
\* and global alike, and the non-zero pixels as the binary image
Collab(img) ==
    [local_threshold |-> [p \in Pix |-> Unit \div 2],
     global_threshold |-> Unit \div 2,
     binary_image |-> NonZero(img.pixel_data)]

\* the typical diameter ranges (min, max) tried
SizeRanges == {<<1, 2>>, <<2, 3>>, <<2, MaxDiam>>}

DefaultSettings ==
    [size_min |-> 2, size_max |-> 3, exclude_size |-> TRUE,
     exclude_border_objects |-> TRUE, threshold_method |-> TM_OTSU,
     unclump_method |-> UN_INTENSITY, watershed_method |-> WA_INTENSITY,
     automatic_smoothing |-> TRUE, smoothing_filter_size |-> 0,
     automatic_suppression |-> TRUE, maxima_suppression_size |-> 2,
     low_res_maxima |-> TRUE, fill_holes |-> TRUE,
     wants_automatic_log_threshold |-> TRUE, manual_log_threshold |-> Unit,
     wants_automatic_log_diameter |-> TRUE, log_diameter |-> 5]
UnclumpMethods == {UN_INTENSITY, UN_SHAPE, UN_LOG, UN_NONE, "Bogus"}
WatershedMethods == {WA_INTENSITY, WA_DISTANCE, WA_NONE, "Bogus"}

\* the post-filter settings, with the objects left unseparated and unsmoothed
FilterSettings ==
    {[DefaultSettings EXCEPT !.unclump_method = UN_NONE,
                             !.automatic_smoothing = FALSE,
                             !.fill_holes = f, !.exclude_border_objects = b,
                             !.exclude_size = z, !.size_min = r[1], !.size_max = r[2]] :
        f \in BOOLEAN, b \in BOOLEAN, z \in BOOLEAN, r \in SizeRanges}

\* the separation settings, with the default post-filters: automatic sizes,
\* Laplacian of Gaussian threshold and hole filling, or manual sizes (no
\* smoothing, or a smoothing filter of size 3: a 3x3 window, sigma 3/2.35 for
\* the maxima), the manual Laplacian of Gaussian threshold 1.0 and no hole
\* filling
ManualSmoothing == {0, 3}
ModeSettings ==
    {[DefaultSettings EXCEPT !.unclump_method = u, !.watershed_method = w,
                             !.automatic_smoothing = f[1],
                             !.smoothing_filter_size = f[2],
                             !.automatic_suppression = f[1],
                             !.wants_automatic_log_threshold = f[1],
                             !.manual_log_threshold = One,
                             !.fill_holes = f[1]] :
        u \in UnclumpMethods, w \in WatershedMethods,
        f \in {<<TRUE, 0>>} \cup {<<FALSE, size>> : size \in ManualSmoothing}}

TypeOK ==
    /\ pc \in {"threshold", "separate", "filter_border", "filter_size", "relabel",
               "store", "done", "raised"}
    /\ exception \in {"None", "NameError", "NotImplementedError", "IndexError"}
    /\ object_count \in 0..NPix
    /\ rng \in 0..MaxRng

\* the variables of run() before its first statement
Fresh ==
    /\ exception = "None"
    /\ global_threshold = 0
    /\ labeled_image = Zeros
    /\ object_count = 0
    /\ maxima_suppression_size = <<0, 1>>
    /\ separate_input = [labeled_image |-> Zeros, object_count |-> 0]
    /\ markers = Zeros
    /\ unedited_labels = Zeros
    /\ border_excluded_labeled_image = Zeros
    /\ size_excluded_labeled_image = Zeros
    /\ size_input = Zeros
    /\ small_removed_labels = Zeros
    /\ objects = [segmented |-> Zeros, unedited_segmented |-> Zeros,
                  small_removed_segmented |-> Zeros]
    /\ count_measurement = 0
    /\ result = << >>

Start(img, st, c, r) ==
    /\ image = img
    /\ settings = st
    /\ collab = c
    /\ rng = r
    /\ pc = "threshold"
    /\ Fresh

NoMask(pixels) == {[pixel_data |-> d, mask |-> AllValid, has_mask |-> FALSE] : d \in pixels}

Init ==
    \/ \E img \in Images(ShellImages \cup SiteImages) \cup NoMask(BandImages),
          st \in FilterSettings :
           Start(img, st, Collab(img), 0)
    \/ \E img \in NoMask(LineImages), st \in ModeSettings :
           Start(img, st, Collab(img), 0)
    \/ \E img \in NoMask(ShellImages), r \in 0..MaxRng,
          m \in {TM_OTSU, TM_BINARY_IMAGE} :
           Start(img, [DefaultSettings EXCEPT !.unclump_method = UN_SHAPE,
                                              !.threshold_method = m],
                 Collab(img), r)

\* bar images: full-width bars on the second and on the second-last row, each
\* present or absent; every pixel of a bar is equally far from the background
BarRows == {1, Rows - 2}
BarImages ==
    {[p \in Pix |-> IF RowOf(p) \in rows THEN One ELSE 0] : rows \in SUBSET BarRows}

\* manual smoothing filter sizes at and below zero (the setting is an integer
\* without a lower limit)
LowSmoothing == {0, -1}

\* the runs that differ in the state of the global random generator: the bar
\* images under every pair of methods, with manual sizes (a smoothing filter
\* size of 0 or below, a 3x3 suppression footprint) and the objects on the
\* border kept
InitRng ==
    \E img \in NoMask(BarImages), r \in 0..MaxRng,
       u \in UnclumpMethods, w \in WatershedMethods, size \in LowSmoothing :
        Start(img, [DefaultSettings EXCEPT !.unclump_method = u,
                                           !.watershed_method = w,
                                           !.automatic_smoothing = FALSE,
                                           !.smoothing_filter_size = size,
                                           !.automatic_suppression = FALSE,
                                           !.wants_automatic_log_threshold = FALSE,
                                           !.exclude_border_objects = FALSE,
                                           !.fill_holes = FALSE],
              Collab(img), r)

\* ------------------------------------------------------------------- run()
\* lines 633/635 and 638/641: the copy of the labels taken before a filter,
\* zeroed where the filtered labels are non-zero
ExcludedKeep(before, after) == before
Excluded(before, after) == ZeroWhere(before, NonZero(after))

\* lines 606-619: the foreground, np.logical_and(blurred_image >=
\* local_threshold, mask)
binary_image(settings_, image_, collab_) ==
    LET img == image_.pixel_data
        mask == image_.mask
        local_threshold ==
            IF settings_.threshold_method = TM_BINARY_IMAGE
            THEN [p \in Pix |-> IF p \in collab_.binary_image THEN 0 ELSE One]
            ELSE collab_.local_threshold
        blurred_image == smooth_image(settings_, img, mask, <<1, 1>>)
    IN  {p \in Pix : blurred_image[p] >= local_threshold[p] /\ mask[p]}

\* lines 625-626 and 649-650: if self.fill_holes.value:
\*     labeled_image = fill_labeled_holes(labeled_image)
fill_skipped(fill_holes, labels) == labels
fill_if_wanted(fill_holes, labels) ==
    IF fill_holes THEN fill_labeled_holes(labels) ELSE labels

\* lines 596-626: threshold, binarize, label, fill holes
Threshold ==
    /\ pc = "threshold"
    /\ LET labeled == label(binary_image(settings, image, collab), Nbr8)
       IN  /\ global_threshold' = collab.global_threshold
           /\ labeled_image' = fill_if_wanted(settings.fill_holes, labeled.labels)
           /\ object_count' = labeled.count
    /\ pc' = "separate"
    /\ UNCHANGED <<result, inputs, rng, exception, maxima_suppression_size, separate_input,
                   markers, unedited_labels, border_excluded_labeled_image,
                   size_excluded_labeled_image, size_input, small_removed_labels,
                   objects, count_measurement>>

\* lines 627-630: separate_neighboring_objects
Separate ==
    /\ pc = "separate"
    /\ \E out \in separate_neighboring_objects(settings, image.pixel_data, image.mask,
                                               labeled_image, object_count,
                                               global_threshold, rng) :
           /\ separate_input' = [labeled_image |-> labeled_image,
                                 object_count |-> object_count]
           /\ rng' = out.rng
           /\ image' = [image EXCEPT !.pixel_data = out.pixel_data]
           /\ markers' = out.markers
           /\ exception' = out.exception
           /\ IF out.exception = "None"
              THEN /\ labeled_image' = out.labeled_image
                   /\ object_count' = out.object_count
                   /\ maxima_suppression_size' = out.maxima_suppression_size
                   /\ pc' = "filter_border"
              ELSE /\ UNCHANGED <<labeled_image, object_count, maxima_suppression_size>>
                   /\ pc' = "raised"
    /\ UNCHANGED <<result, settings, collab, global_threshold, unedited_labels,
                   border_excluded_labeled_image, size_excluded_labeled_image,
                   size_input, small_removed_labels, objects, count_measurement>>
\* line 631: unedited_labels = labeled_image.copy(), taken before
\* filter_on_border zeroes objects of labeled_image in place (`after')
unedited_alias(before, after) == after
unedited_copy(before, after) == before

\* lines 631-635: the unedited copy and filter_on_border
FilterBorder ==
    /\ pc = "filter_border"
    /\ LET filtered == filter_on_border(settings.exclude_border_objects, image, labeled_image)
       IN  /\ unedited_labels' = unedited_copy(labeled_image, filtered)
           /\ labeled_image' = filtered
           /\ border_excluded_labeled_image' = Excluded(labeled_image, filtered)
    /\ pc' = "filter_size"
    /\ UNCHANGED <<result, inputs, rng, exception, global_threshold, object_count,
                   maxima_suppression_size, separate_input, markers,
                   size_excluded_labeled_image, size_input, small_removed_labels,
                   objects, count_measurement>>

\* lines 637-641: filter_on_size
FilterSize ==
    /\ pc = "filter_size"
    /\ LET out == filter_on_size(settings.exclude_size, settings.size_min,
                                 settings.size_max, labeled_image, object_count)
       IN  /\ size_input' = labeled_image
           /\ exception' = out.exception
           /\ IF out.exception = "None"
              THEN /\ labeled_image' = out.labeled_image
                   /\ small_removed_labels' = out.small_removed_labels
                   /\ size_excluded_labeled_image' =
                          Excluded(labeled_image, out.labeled_image)
                   /\ pc' = "relabel"
              ELSE /\ UNCHANGED <<labeled_image, small_removed_labels,
                                  size_excluded_labeled_image>>
                   /\ pc' = "raised"
    /\ UNCHANGED <<result, inputs, rng, global_threshold, object_count,
                   maxima_suppression_size, separate_input, markers, unedited_labels,
                   border_excluded_labeled_image, objects, count_measurement>>

\* lines 643-650: relabel, then fill holes again
RelabelSkipped ==
    /\ pc = "relabel"
    /\ labeled_image' = fill_if_wanted(settings.fill_holes, labeled_image)
    /\ object_count' = Cardinality(LabelsOf(labeled_image))
    /\ pc' = "store"
    /\ UNCHANGED <<result, inputs, rng, exception, global_threshold, maxima_suppression_size,
                   separate_input, markers, unedited_labels,
                   border_excluded_labeled_image, size_excluded_labeled_image,
                   size_input, small_removed_labels, objects, count_measurement>>
Relabel ==
    /\ pc = "relabel"
    /\ LET out == relabel(labeled_image)
       IN  /\ labeled_image' = fill_if_wanted(settings.fill_holes, out.labels)
           /\ object_count' = out.count
    /\ pc' = "store"
    /\ UNCHANGED <<result, inputs, rng, exception, global_threshold, maxima_suppression_size,
                   separate_input, markers, unedited_labels,
                   border_excluded_labeled_image, size_excluded_labeled_image,
                   size_input, small_removed_labels, objects, count_measurement>>

\* lines 689-704: the object count measurement and the Objects of the object set
Store ==
    /\ pc = "store"
    /\ count_measurement' = object_count
    /\ objects' = [segmented |-> labeled_image,
                   unedited_segmented |-> unedited_labels,
                   small_removed_segmented |-> small_removed_labels]
    /\ pc' = "done"
    /\ UNCHANGED <<result, inputs, rng, exception, global_threshold, labeled_image,
                   object_count, maxima_suppression_size, separate_input, markers,
                   unedited_labels, border_excluded_labeled_image,
                   size_excluded_labeled_image, size_input, small_removed_labels>>

Next == Threshold \/ Separate \/ FilterBorder \/ FilterSize \/ Relabel \/ Store

Spec == Init /\ [][Next]_vars

\* the same program started from the runs of InitRng
SpecRng == InitRng /\ [][Next]_vars
\* ------------------------------------------- the sizes of the unclumping
\* the smallest diameters tried: 1..MaxMinDiam, on both sides of the limit 10
\* of the low-resolution switch
MaxMinDiam == 12
\* how far the largest diameter lies above the smallest
MaxSpread == 2

SizeSettings ==
    {[DefaultSettings EXCEPT !.size_min = lo, !.size_max = lo + d,
                             !.low_res_maxima = low,
                             !.automatic_suppression = f[1],
                             !.maxima_suppression_size = f[2],
                             !.wants_automatic_log_diameter = f[1],
                             !.log_diameter = f[2] + 1,
                             !.unclump_method = UN_LOG] :
        lo \in 1..MaxMinDiam, d \in 0..MaxSpread, low \in BOOLEAN,
        f \in {<<TRUE, 2>>, <<FALSE, 2>>, <<FALSE, 7>>}}

InitSizes ==
    \E img \in NoMask({Zeros}), st \in SizeSettings :
        /\ image = img /\ settings = st /\ collab = Collab(img) /\ rng = 0
        /\ pc = "sizes"
        /\ Fresh

\* lines 760-773: image_resize_factor, maxima_suppression_size and maxima_mask
Sizes ==
    /\ pc = "sizes"
    /\ result' = [image_resize_factor |-> image_resize_factor(settings),
                  maxima_suppression_size |-> suppression_size(settings),
                  maxima_mask |-> maxima_mask(settings)]
    /\ pc' = "log_diameter"
    /\ UNCHANGED <<inputs, rng, exception, global_threshold, labeled_image,
                   object_count, maxima_suppression_size, separate_input, markers,
                   unedited_labels, border_excluded_labeled_image,
                   size_excluded_labeled_image, size_input, small_removed_labels,
                   objects, count_measurement>>

\* lines 775-781: the Laplacian of Gaussian branch up to sigma
LogDiameter ==
    /\ pc = "log_diameter"
    /\ settings.unclump_method = UN_LOG
    /\ result' = [diameter |-> log_diameter(settings)]
    /\ pc' = "sized"
    /\ UNCHANGED <<inputs, rng, exception, global_threshold, labeled_image,
                   object_count, maxima_suppression_size, separate_input, markers,
                   unedited_labels, border_excluded_labeled_image,
                   size_excluded_labeled_image, size_input, small_removed_labels,
                   objects, count_measurement>>

NextSizes == Sizes \/ LogDiameter

SpecSizes == InitSizes /\ [][NextSizes]_vars
\* -------------------------------------------------- get_maxima on its own
\* the manual maxima suppression sizes tried: 1..MaxSuppression
MaxSuppression == 3

\* get_maxima is called at full resolution with an image (a concentric or a
\* line image), the labels of its non-zero pixels, with or without the middle
\* column, and the footprint of a manual suppression size
InitMaxima ==
    \E img \in NoMask(ShellImages \cup LineImages), cut \in BOOLEAN,
       m \in 1..MaxSuppression :
        /\ image = img
        /\ settings = [DefaultSettings EXCEPT !.automatic_suppression = FALSE,
                                              !.maxima_suppression_size = m,
                                              !.low_res_maxima = FALSE]
        /\ collab = Collab(img) /\ rng = 0
        /\ pc = "get_maxima"
        /\ exception = "None"
        /\ global_threshold = 0
        /\ LET labeled == label({p \in NonZero(img.pixel_data) :
                                    ~(cut /\ ColOf(p) = Cols \div 2)}, Nbr8)
           IN  labeled_image = labeled.labels /\ object_count = labeled.count
        /\ maxima_suppression_size = <<m, 1>>
        /\ separate_input = [labeled_image |-> Zeros, object_count |-> 0]
        /\ markers = Zeros
        /\ unedited_labels = Zeros
        /\ border_excluded_labeled_image = Zeros
        /\ size_excluded_labeled_image = Zeros
        /\ size_input = Zeros
        /\ small_removed_labels = Zeros
        /\ objects = [segmented |-> Zeros, unedited_segmented |-> Zeros,
                      small_removed_segmented |-> Zeros]
        /\ count_measurement = 0
        /\ result = << >>

\* lines 873-908: get_maxima(image, labeled_image, maxima_mask, 1.0), with its
\* locals binary_maxima_image and shrunk_image
GetMaxima ==
    /\ pc = "get_maxima"
    /\ LET binary_maxima_image ==
               MaximaCandidates(image.pixel_data, maxima_mask(settings))
       IN  \E shrunk_image \in binary_shrink(binary_maxima_image) :
               result' = [binary_maxima_image |-> binary_maxima_image,
                          shrunk_image |-> shrunk_image,
                          maxima_image |-> get_maxima(image.pixel_data, labeled_image,
                                                      maxima_mask(settings),
                                                      shrunk_image)]
    /\ pc' = "maxima"
    /\ UNCHANGED <<inputs, rng, exception, global_threshold, labeled_image,
                   object_count, maxima_suppression_size, separate_input, markers,
                   unedited_labels, border_excluded_labeled_image,
                   size_excluded_labeled_image, size_input, small_removed_labels,
                   objects, count_measurement>>

NextMaxima == GetMaxima

SpecMaxima == InitMaxima /\ [][NextMaxima]_vars
\* ----------------------------------------------- the marker ids on their own
\* the small numbers of maxima clusters tried: 0..MaxClusters
MaxClusters == 100
\* numbers of clusters at and beyond the range of the marker array
ManyClusters == {2^(MarkerBits - 1), 2^(MarkerBits - 1) + 1, 2^MarkerBits + 1}

\* scipy.ndimage.label has found object_count clusters of maxima, numbered
\* 1..object_count
InitMarkers ==
    \E img \in NoMask({Zeros}), n \in (0..MaxClusters) \cup ManyClusters :
        /\ image = img /\ settings = DefaultSettings /\ collab = Collab(img)
        /\ rng = 0
        /\ pc = "markers"
        /\ exception = "None"
        /\ global_threshold = 0
        /\ labeled_image = Zeros
        /\ object_count = n
        /\ maxima_suppression_size = <<0, 1>>
        /\ separate_input = [labeled_image |-> Zeros, object_count |-> 0]
        /\ markers = Zeros
        /\ unedited_labels = Zeros
        /\ border_excluded_labeled_image = Zeros
        /\ size_excluded_labeled_image = Zeros
        /\ size_input = Zeros
        /\ small_removed_labels = Zeros
        /\ objects = [segmented |-> Zeros, unedited_segmented |-> Zeros,
                      small_removed_segmented |-> Zeros]
        /\ count_measurement = 0
        /\ result = << >>

\* lines 857-860 and 869: the value that the int16 marker array holds for
\* each cluster, and the labels returned for the pixels of the seeds
\* (watershed_boundaries = -watershed_boundaries)
Markers ==
    /\ pc = "markers"
    /\ LET marker_of == [k \in 1..object_count |-> Int16(-k)]
       IN  result' = [markers |-> marker_of,
                      labels |-> {-marker_of[k] : k \in 1..object_count}]
    /\ pc' = "marked"
    /\ UNCHANGED <<inputs, rng, exception, global_threshold, labeled_image,
                   object_count, maxima_suppression_size, separate_input, markers,
                   unedited_labels, border_excluded_labeled_image,
                   size_excluded_labeled_image, size_input, small_removed_labels,
                   objects, count_measurement>>

NextMarkers == Markers

SpecMarkers == InitMarkers /\ [][NextMarkers]_vars
\* ----------------------------------------------------- upgrade_settings
\* the strings of cellprofiler.settings, cellprofiler.cpmath.threshold and
\* cellprofiler.modules.identify that upgrade_settings reads and writes
YES == "Yes"
NO == "No"
AUTOMATIC == "Automatic"
DO_NOT_USE == "Do not use"
TM_MANUAL == "Manual"
TM_METHODS == {TM_OTSU, "MoG Global", TM_MANUAL, TM_BINARY_IMAGE}
O_TWO_CLASS == "Two classes"
O_WEIGHTED_VARIANCE == "Weighted variance"
O_FOREGROUND == "Foreground"
\* float(s) succeeds
IsFloat(s) == s \in {"0.5", "0.0", "10", "5", "7", ".5"}

\* lines 170-198: the positions of the settings, counted from 0
THRESHOLD_METHOD_VAR == 6
UNCLUMP_METHOD_VAR == 10
WATERSHED_VAR == 11
SMOOTHING_SIZE_VAR == 12
MAXIMA_SUPPRESSION_SIZE_VAR == 13
SAVE_OUTLINES_VAR == 15

\* line 202
variable_revision_number == 4

\* lines 440-456: settings()
settings_returned ==
    <<"image_name", "object_name", "size_range", "exclude_size", "merge_objects",
      "exclude_border_objects", "threshold_method", "threshold_correction_factor",
      "threshold_range", "object_fraction", "unclump_method", "watershed_method",
      "smoothing_filter_size", "maxima_suppression_size", "low_res_maxima",
      "save_outlines", "fill_holes", "automatic_smoothing", "automatic_suppression",
      "manual_threshold", "binary_image", "should_save_outlines",
      "wants_automatic_log_threshold", "manual_log_threshold", "two_class_otsu",
      "use_weighted_variance", "assign_middle_to_foreground",
      "wants_automatic_log_diameter", "log_diameter">>

\* values[var] and values[var] = v of a Python list
Get(values, var) == values[var + 1]
Set(values, var, v) == [values EXCEPT ![var + 1] = v]
\* values[:n]
Head_(values, n) == SubSeq(values, 1, IF n < Len(values) THEN n ELSE Len(values))
\* del values[var]
DelNothing(values, var) == values
Del(values, var) == SubSeq(values, 1, var) \o SubSeq(values, var + 2, Len(values))

\* lines 473-532: the values of revision 1 from those of Matlab revision 12.
\* The object fraction (lines 516-518) is rewritten in the list given by the
\* caller, after new_setting_values was taken from it: the result keeps the
\* value as saved
upgrade_from_matlab(setting_values) ==
    LET v0 == Del(Head_(setting_values, 18), 15)
        v1 == IF Get(setting_values, SMOOTHING_SIZE_VAR) = AUTOMATIC
              THEN Set(v0 \o <<YES>>, SMOOTHING_SIZE_VAR, "10")
              ELSE v0 \o <<NO>>
        v2 == IF Get(setting_values, MAXIMA_SUPPRESSION_SIZE_VAR) = AUTOMATIC
              THEN Set(v1 \o <<YES>>, MAXIMA_SUPPRESSION_SIZE_VAR, "5")
              ELSE v1 \o <<NO>>
        method == Get(setting_values, THRESHOLD_METHOD_VAR)
        v3 == IF method \notin TM_METHODS
              THEN IF IsFloat(method)
                   THEN Set(v2, THRESHOLD_METHOD_VAR, TM_MANUAL) \o <<method, DO_NOT_USE>>
                   ELSE Set(v2, THRESHOLD_METHOD_VAR, TM_BINARY_IMAGE) \o <<"0.0", method>>
              ELSE v2 \o <<"0.0", method>>
        v4 == IF Get(v3, SAVE_OUTLINES_VAR) = DO_NOT_USE
              THEN Set(v3 \o <<NO>>, SAVE_OUTLINES_VAR, "None")
              ELSE v3 \o <<YES>>
        v5 == IF Get(v4, UNCLUMP_METHOD_VAR) = DO_NOT_USE
              THEN Set(v4, UNCLUMP_METHOD_VAR, UN_NONE) ELSE v4
    IN  IF Get(v5, WATERSHED_VAR) = DO_NOT_USE
        THEN Set(v5, WATERSHED_VAR, WA_NONE) ELSE v5

\* lines 538, 544-545 and 550: the values that the revision after n adds
added_after(n) ==
    CASE n = 1 -> <<YES, ".5">>
      [] n = 2 -> <<O_TWO_CLASS, O_WEIGHTED_VARIANCE, O_FOREGROUND>>
      [] n = 3 -> <<YES, "5">>

\* the number of values that revision n saves: those of settings() without the
\* ones added after n
RECURSIVE SavedCount(_)
SavedCount(n) ==
    IF n >= variable_revision_number THEN Len(settings_returned)
    ELSE SavedCount(n + 1) - Len(added_after(n))

\* a pipeline of Matlab revision 12, with its 19 values
MatlabValues ==
    {<<"DNA", "Nuclei", "10,40", YES, NO, YES, method, "1", "0,1", fraction,
       unclump, shed, smoothing, suppression, YES, "Do not use", outlines, YES, NO>> :
       method \in {TM_OTSU, "0.5", "MaskImage"}, fraction \in {"0.1", "5%"},
       unclump \in {UN_INTENSITY, DO_NOT_USE}, shed \in {WA_INTENSITY, DO_NOT_USE},
       smoothing \in {AUTOMATIC, "7"}, suppression \in {AUTOMATIC, "7"},
       outlines \in {DO_NOT_USE, "NucleiOutlines"}}

\* the values a pipeline of this program has saved at revision n (positions
\* beyond the current settings for a revision not yet known)
SavedValues(n) ==
    {[i \in 1..(IF n > variable_revision_number THEN Len(settings_returned) + 1
                 ELSE SavedCount(n)) |->
         IF i = UNCLUMP_METHOD_VAR + 1 THEN unclump
         ELSE IF i = THRESHOLD_METHOD_VAR + 1 THEN method ELSE "1"] :
       unclump \in {UN_INTENSITY, UN_LOG, UN_NONE}, method \in {TM_OTSU, TM_MANUAL}}

\* the arguments of upgrade_settings: from_matlab, variable_revision_number
\* and setting_values
Saved ==
    ({TRUE} \X {12, 11} \X MatlabValues)
        \cup UNION {{FALSE} \X {n} \X SavedValues(n) : n \in 1..(variable_revision_number + 1)}

InitUpgrade ==
    \E img \in NoMask({Zeros}), s \in Saved :
        /\ image = img /\ settings = DefaultSettings /\ collab = Collab(img)
        /\ rng = 0
        /\ pc = "if_matlab"
        /\ exception = "None"
        /\ global_threshold = 0
        /\ labeled_image = Zeros
        /\ object_count = 0
        /\ maxima_suppression_size = <<0, 1>>
        /\ separate_input = [labeled_image |-> Zeros, object_count |-> 0]
        /\ markers = Zeros
        /\ unedited_labels = Zeros
        /\ border_excluded_labeled_image = Zeros
        /\ size_excluded_labeled_image = Zeros
        /\ size_input = Zeros
        /\ small_removed_labels = Zeros
        /\ objects = [segmented |-> Zeros, unedited_segmented |-> Zeros,
                      small_removed_segmented |-> Zeros]
        /\ count_measurement = 0
        /\ result = [from_matlab |-> s[1], variable_revision_number |-> s[2],
                     setting_values |-> s[3], saved |-> s, steps |-> << >>]

UpgradeUnchanged ==
    UNCHANGED <<inputs, rng, exception, global_threshold, labeled_image,
                object_count, maxima_suppression_size, separate_input, markers,
                unedited_labels, border_excluded_labeled_image,
                size_excluded_labeled_image, size_input, small_removed_labels,
                objects, count_measurement>>

\* lines 463-534: if variable_revision_number == 12 and from_matlab
IfMatlab ==
    /\ pc = "if_matlab"
    /\ result' =
           IF result.variable_revision_number = 12 /\ result.from_matlab
           THEN [result EXCEPT
                    !.setting_values = upgrade_from_matlab(result.setting_values),
                    !.variable_revision_number = 1,
                    !.from_matlab = FALSE,
                    !.steps = Append(@, 1)]
           ELSE result
    /\ pc' = "if_1"
    /\ UpgradeUnchanged

\* lines 535-551: if (not from_matlab) and variable_revision_number == n, the
\* values of revision n + 1
upgrade_step(r, n) ==
    IF ~r.from_matlab /\ r.variable_revision_number = n
    THEN [r EXCEPT !.setting_values = @ \o added_after(n),
                   !.variable_revision_number = n + 1,
                   !.steps = Append(@, n + 1)]
    ELSE r

If1 ==
    /\ pc = "if_1"
    /\ result' = upgrade_step(result, 1)
    /\ pc' = "if_2"
    /\ UpgradeUnchanged

If2 ==
    /\ pc = "if_2"
    /\ result' = upgrade_step(result, 2)
    /\ pc' = "if_3"
    /\ UpgradeUnchanged

If3 ==
    /\ pc = "if_3"
    /\ result' = upgrade_step(result, 3)
    /\ pc' = "upgraded"
    /\ UpgradeUnchanged

NextUpgrade == IfMatlab \/ If1 \/ If2 \/ If3

SpecUpgrade == InitUpgrade /\ [][NextUpgrade]_vars

\* ------------------------------------------------------------------ claims
AfterSeparate == pc \in {"filter_border", "filter_size", "relabel", "store", "done"}

\* the labels of the objects of `labels' with a pixel on the array border
TouchingArrayBorder(labels) == {labels[p] : p \in ArrayBorder} \ {0}
\* valid mask pixels adjacent to an invalid pixel
NextToInvalid(mask) == {p \in Pix : mask[p] /\ \E q \in Nbr4[p] : ~mask[q]}
TouchingMaskBorder(labels, mask) == {labels[p] : p \in NextToInvalid(mask)} \ {0}
PixelCount(labels, l) == Cardinality({p \in Pix : labels[p] = l})

\* C1 (as claimed): after run() the non-zero pixel sets of the final, the
\* size-excluded and the border-excluded labels are pairwise disjoint and their
\* union is the non-zero pixel set of the unedited labels, for every
\* configuration, fill-holes included
C1_Original ==
    pc = "done" =>
        LET F == NonZero(objects.segmented)
            S == NonZero(size_excluded_labeled_image)
            B == NonZero(border_excluded_labeled_image)
        IN  /\ F \cap S = {} /\ F \cap B = {} /\ S \cap B = {}
            /\ F \cup S \cup B = NonZero(objects.unedited_segmented)

\* C1 (amended): the size-excluded and border-excluded sets are disjoint, lie in
\* the unedited set and cover it together with the final labels; with
\* fill-holes disabled the final set is disjoint from both and the union is
\* exactly the unedited set
C1_Partition ==
    pc = "done" =>
        LET F == NonZero(objects.segmented)
            S == NonZero(size_excluded_labeled_image)
            B == NonZero(border_excluded_labeled_image)
            U == NonZero(objects.unedited_segmented)
        IN  /\ S \cap B = {}
            /\ S \cup B \subseteq U
            /\ U \subseteq F \cup S \cup B
            /\ ~settings.fill_holes =>
                   /\ F \cap S = {} /\ F \cap B = {}
                   /\ F \cup S \cup B = U

C1_Witness ==
    /\ pc = "done"
    /\ ~settings.fill_holes
    /\ NonZero(objects.segmented) # {}
    /\ NonZero(size_excluded_labeled_image) # {}
    /\ NonZero(border_excluded_labeled_image) # {}

\* C2: with unclumping None or dividing lines None, separate_neighboring_objects
\* returns the label map and object count it was given, reports the size 7,
\* places no marker and raises nothing, whatever the other method is
C2_FastPath ==
    (pc \in {"filter_border", "raised"} /\ exception # "IndexError"
        /\ (settings.unclump_method = UN_NONE \/ settings.watershed_method = WA_NONE)) =>
        /\ pc = "filter_border"
        /\ exception = "None"
        /\ labeled_image = separate_input.labeled_image
        /\ object_count = separate_input.object_count
        /\ maxima_suppression_size = <<7, 1>>
        /\ markers = Zeros

C2_Witness ==
    /\ pc = "filter_border"
    /\ settings.unclump_method = UN_NONE
    /\ settings.watershed_method = "Bogus"
    /\ object_count > 0
    /\ NonZero(labeled_image) # {}

\* C3 (as claimed): in Intensity mode no watershed seed lies on a pixel whose
\* smoothed intensity is below the threshold of the binarization
C3_NoDimSeed ==
    (AfterSeparate /\ settings.unclump_method = UN_INTENSITY /\ ~FastPath(settings)) =>
        LET fs == calc_smoothing_filter_size(settings)
            blurred_image == smooth_image(settings, image.pixel_data, image.mask,
                                          Rat(20 * fs[1], 47 * fs[2]))
        IN  \A p \in Pix : markers[p] # 0 => blurred_image[p] >= global_threshold

\* C4 (as claimed): an unclumping method other than Intensity, Shape, Laplacian
\* of Gaussian and None ends separate_neighboring_objects with a ValueError,
\* whatever the dividing-line method is
C4_ValueError ==
    (pc \notin {"threshold", "separate"}
        /\ settings.unclump_method \notin {UN_INTENSITY, UN_SHAPE, UN_LOG, UN_NONE}) =>
        pc = "raised" /\ exception = "ValueError"

\* C5 (as claimed): a dividing-line method other than Intensity, Distance and
\* None ends separate_neighboring_objects with an error and no labeling,
\* whatever the unclumping method is
C5_Original ==
    (pc \notin {"threshold", "separate"}
        /\ settings.watershed_method \notin {WA_INTENSITY, WA_DISTANCE, WA_NONE}) =>
        pc = "raised" /\ exception # "None"

\* C5 (amended): such a dividing-line method ends separate_neighboring_objects
\* with an exception and no labeling whenever the unclumping method is not
\* None, with NotImplementedError when the unclumping method is supported
C5_UnsupportedWatershed ==
    (pc \notin {"threshold", "separate"}
        /\ settings.watershed_method \notin {WA_INTENSITY, WA_DISTANCE, WA_NONE}
        /\ settings.unclump_method # UN_NONE) =>
        /\ pc = "raised"
        /\ exception # "None"
        /\ labeled_image = separate_input.labeled_image
        /\ settings.unclump_method \in {UN_INTENSITY, UN_SHAPE, UN_LOG} =>
               exception = "NotImplementedError"

C5_Witness ==
    /\ pc = "raised"
    /\ exception = "NotImplementedError"
    /\ settings.watershed_method = "Bogus"
    /\ settings.unclump_method = UN_SHAPE
    /\ separate_input.object_count > 0
\* C6: with border exclusion, filter_on_border zeroes every pixel of every
\* object with a pixel in row 0, the last row, column 0 or the last column and,
\* when there is such an object, changes no other pixel; without border
\* exclusion it returns the label map unchanged
C6_ArrayBorder ==
    pc = "filter_size" =>
        LET touching == TouchingArrayBorder(unedited_labels)
        IN  /\ settings.exclude_border_objects =>
                   /\ \A p \in Pix : unedited_labels[p] \in touching => labeled_image[p] = 0
                   /\ touching # {} =>
                          \A p \in Pix : unedited_labels[p] \notin touching =>
                              labeled_image[p] = unedited_labels[p]
            /\ ~settings.exclude_border_objects => labeled_image = unedited_labels

C6_Witness ==
    /\ pc = "filter_size"
    /\ settings.exclude_border_objects
    /\ \E p \in Pix : ColOf(p) = Cols - 1 /\ unedited_labels[p] # 0
    /\ TouchingArrayBorder(unedited_labels) # LabelsOf(unedited_labels)
    /\ labeled_image # unedited_labels
    /\ NonZero(labeled_image) # {}

BelowMin(labels, d) ==
    {p \in Pix : labels[p] # 0 /\ 4 * PixelCount(labels, labels[p]) * PiDen < PiNum * d * d}
AboveMax(labels, d) ==
    {p \in Pix : labels[p] # 0 /\ 4 * PixelCount(labels, labels[p]) * PiDen > PiNum * d * d}

\* C8: with size exclusion and object_count > 0, filter_on_size zeroes exactly
\* the objects with fewer pixels than pi*min^2/4 or more than pi*max^2/4;
\* without size exclusion it zeroes nothing
C8_SizeFilter ==
    pc = "relabel" =>
        /\ (settings.exclude_size /\ object_count > 0) =>
               \A p \in Pix :
                   labeled_image[p] =
                       IF p \in BelowMin(size_input, settings.size_min)
                                \cup AboveMax(size_input, settings.size_max)
                       THEN 0 ELSE size_input[p]
        /\ ~settings.exclude_size => labeled_image = size_input

C8_Witness ==
    /\ pc = "relabel"
    /\ settings.exclude_size
    /\ BelowMin(size_input, settings.size_min) # {}
    /\ AboveMax(size_input, settings.size_max) # {}
    /\ NonZero(labeled_image) # {}

C10_Contiguous ==
    pc = "done" =>
        /\ LabelsOf(objects.segmented) = 1..count_measurement
        /\ count_measurement = object_count
        /\ count_measurement =
               Cardinality(LabelsOf(size_input) \ LabelsOf(size_excluded_labeled_image))

C10_Witness ==
    /\ pc = "done"
    /\ settings.fill_holes
    /\ count_measurement >= 2
    /\ LabelsOf(size_input) \ LabelsOf(size_excluded_labeled_image) # 1..count_measurement
    /\ NonZero(border_excluded_labeled_image) # {}
Watershed == pc = "filter_border" /\ ~FastPath(settings)
PreUnclump == separate_input.labeled_image

\* C12: on the watershed path every pixel that is zero in the pre-unclump
\* labeling is zero in the returned label map, and every non-zero returned
\* label is the absolute value of the negative marker id of some seed
C12_FloodRestricted ==
    Watershed =>
        \A p \in Pix :
            /\ PreUnclump[p] = 0 => labeled_image[p] = 0
            /\ labeled_image[p] # 0 => \E q \in Pix : markers[q] = -labeled_image[p]

C12_Witness ==
    /\ Watershed
    /\ Cardinality(LabelsOf(labeled_image)) >= 2
    /\ \E p \in Pix : labeled_image[p] # 0 /\ markers[p] = 0
    /\ \E p \in Pix : PreUnclump[p] = 0 /\ \E q \in Nbr8[p] : labeled_image[q] # 0

\* C13 (as claimed): on the watershed path every pixel that is non-zero in the
\* pre-unclump labeling has a non-zero label in the returned map
C13_AllAssigned ==
    Watershed => \A p \in Pix : PreUnclump[p] # 0 => labeled_image[p] # 0

\* C14 (as claimed): the number of seed clusters, the returned object_count, is
\* at most the number of connected components of the pre-unclump labeling
C14_Original ==
    Watershed => object_count <= Cardinality(LabelsOf(PreUnclump))

\* C14 (amended): every seed lies on the pre-unclump foreground, the returned
\* object_count is the number of seed clusters, it is at least the number of
\* pre-unclump components that hold a seed and at most the number of foreground
\* pixels, and no returned object spans two pre-unclump components
C14_SeedsSplit ==
    Watershed =>
        LET ids == {-markers[p] : p \in NonZero(markers)}
        IN  /\ \A p \in Pix : markers[p] # 0 => PreUnclump[p] # 0
            /\ ids = 1..object_count
            /\ object_count >= Cardinality({PreUnclump[p] : p \in NonZero(markers)})
            /\ object_count <= Cardinality(NonZero(PreUnclump))
            /\ \A p, q \in Pix :
                   (labeled_image[p] # 0 /\ labeled_image[p] = labeled_image[q]) =>
                       PreUnclump[p] = PreUnclump[q]

C14_Witness ==
    /\ Watershed
    /\ object_count > Cardinality(LabelsOf(PreUnclump))
    /\ Cardinality(LabelsOf(labeled_image)) = object_count

\* what one call of separate_neighboring_objects hands back to run()
Returned(out) ==
    [labeled_image |-> out.labeled_image, object_count |-> out.object_count,
     exception |-> out.exception]
\* the results of the call that run() is about to make, were the global
\* generator in `state'
RunsFrom(state) ==
    {Returned(out) : out \in separate_neighboring_objects(
                                settings, image.pixel_data, image.mask,
                                labeled_image, object_count, global_threshold, state)}

\* C15: the segmentation is deterministic: for the same image, mask and
\* configuration the label map, the object count and the exception that the
\* unclumping stage hands back (for each answer of the library functions
\* binary_shrink and otsu) are the same whatever state the global random number
\* generator was left in by earlier runs or other users, in every mode
\* including Shape
C15_Deterministic ==
    pc = "separate" => \A r \in 0..MaxRng : RunsFrom(r) = RunsFrom(rng)

\* a Shape run in which the jitter decided between two equally distant pixels
C15_Witness ==
    /\ Watershed
    /\ settings.unclump_method = UN_SHAPE
    /\ object_count >= 1
    /\ LET d2 == DistanceSquared(NonZero(PreUnclump))
       IN  \E p, q \in Pix : /\ d2[p] > 0 /\ d2[p] = d2[q]
                              /\ markers[p] # 0 /\ markers[q] = 0
                              /\ q \notin Nbr8[p]

\* C16 (as claimed): no step of a run changes the state of the global random
\* number generator: it is the same after separate_neighboring_objects as
\* before it, whether the call returns or raises
C16_RngUntouched == [][rng' = rng]_vars

\* C17: the unedited label map is the output of the unclumping stage (the
\* labels run() holds when separate_neighboring_objects has returned, on the
\* watershed path and on the fast path alike), border filtering, size
\* filtering, relabeling and hole filling leave it as it is, and it is the map
\* stored in the result
C17_UneditedKept ==
    [][/\ pc = "filter_border" => unedited_labels' = labeled_image
       /\ pc \in {"filter_size", "relabel", "store"} => unedited_labels' = unedited_labels
       /\ pc = "store" => objects'.unedited_segmented = unedited_labels]_vars

\* a stored result whose filters removed objects from the unclumped labels
C17_Witness ==
    /\ pc = "done"
    /\ NonZero(border_excluded_labeled_image) # {}
    /\ NonZero(size_excluded_labeled_image) # {}
    /\ objects.unedited_segmented # objects.segmented
    /\ objects.unedited_segmented = unedited_labels

\* C18: run() never modifies the caller's image: no step changes the pixel
\* data or the mask, for every configuration (a smoothing filter size of 0,
\* where blurred_image is the input array itself, included) and every
\* unclumping mode
C18_ImageKept == [][image' = image]_vars

\* a finished Intensity run without smoothing in which get_maxima zeroed
\* non-zero pixels of the array it worked on
C18_Witness ==
    /\ pc = "done"
    /\ ~FastPath(settings)
    /\ settings.unclump_method = UN_INTENSITY
    /\ BlurredIsImage(settings)
    /\ \E p \in Pix : image.pixel_data[p] # 0 /\ markers[p] = 0
    /\ \E p \in Pix : markers[p] # 0

\* C19 (as claimed): smooth_image returns the input image with unchanged values
\* whenever the smoothing filter diameter is 0 or negative
C19_NoBlurAtOrBelowZero ==
    calc_smoothing_filter_size(settings)[1] <= 0 =>
        smooth_image(settings, image.pixel_data, image.mask, <<1, 1>>) = image.pixel_data

\* thresholding left no foreground pixel and the unclumping stage has run
ZeroForeground ==
    /\ pc \notin {"threshold", "separate"}
    /\ separate_input.labeled_image = Zeros
\* the pairs of methods that separate_neighboring_objects has a branch for
SupportedMode ==
    FastPath(settings) \/ (UnclumpSupported(settings) /\ WatershedSupported(settings))

\* C20: when thresholding yields zero foreground pixels, a run in a supported
\* mode with border and size exclusion enabled raises no exception at any
\* stage, the object count is 0 from the unclumping stage on, and the run ends
\* with all-zero final, unedited, border-excluded and size-excluded label maps
C20_EmptyPasses ==
    (/\ ZeroForeground /\ SupportedMode
     /\ settings.exclude_border_objects /\ settings.exclude_size) =>
        /\ pc # "raised"
        /\ exception = "None"
        /\ object_count = 0
        /\ labeled_image = Zeros
        /\ pc = "done" =>
               /\ objects.segmented = Zeros
               /\ objects.unedited_segmented = Zeros
               /\ objects.small_removed_segmented = Zeros
               /\ border_excluded_labeled_image = Zeros
               /\ size_excluded_labeled_image = Zeros
               /\ count_measurement = 0

\* a finished Shape run on an image without foreground: the jitter makes every
\* pixel of the distance image non-zero, and no seed is left
C20_Witness ==
    /\ pc = "done"
    /\ ZeroForeground
    /\ ~FastPath(settings)
    /\ settings.unclump_method = UN_SHAPE
    /\ settings.exclude_border_objects /\ settings.exclude_size
    /\ markers = Zeros
    /\ objects.segmented = Zeros

\* a - b for rationals
RatMinus(a, b) == Rat(a[1] * b[2] - b[1] * a[2], a[2] * b[2])

\* C21 (as claimed): with low-resolution maxima enabled and min_diameter > 10
\* the resize factor is 10/min_diameter and the suppression size is 7
\* (automatic) or the user value times the resize factor (manual); otherwise
\* the resize factor is 1 and the suppression size is min_diameter/1.5
\* (automatic) or the user value (manual); the footprint is the disk of radius
\* suppression size - 0.5
C21_Sizes ==
    pc = "log_diameter" =>
        LET lo == settings.size_min
            user == settings.maxima_suppression_size
            low == settings.low_res_maxima /\ lo > 10
            factor == IF low THEN Rat(10, lo) ELSE <<1, 1>>
            size == IF low
                    THEN IF settings.automatic_suppression THEN <<7, 1>>
                         ELSE Rat(user * factor[1], factor[2])
                    ELSE IF settings.automatic_suppression THEN Rat(2 * lo, 3)
                         ELSE <<user, 1>>
        IN  /\ result.image_resize_factor = factor
            /\ result.maxima_suppression_size = size
            /\ result.maxima_mask = strel_disk(RatMinus(size, <<1, 2>>))

\* C22 (as claimed): in Laplacian of Gaussian mode the diameter that sizes the
\* filter is the quotient (min(max_diam, min_diam^2) + min_diam*5)/6 when the
\* diameter is automatic, and the user-entered value when it is manual
C22_LogDiameter ==
    pc = "sized" =>
        IF settings.wants_automatic_log_diameter
        THEN result.diameter[1] * 6 =
                 result.diameter[2]
                 * (Min2(settings.size_max, settings.size_min * settings.size_min)
                    + settings.size_min * 5)
        ELSE result.diameter = <<settings.log_diameter, 1>>

\* the background regions (4-connected, off the array border) of `labels' that
\* are surrounded by pixels of one object only
EnclosedRegions(labels) ==
    LET regions == Components(Pix \ NonZero(labels), Nbr4, << >>)
        Around(R) == {labels[q] : q \in {x \in NonZero(labels) :
                                            \E p \in R : x \in Nbr4[p]}}
    IN  {regions[i] : i \in {j \in 1..Len(regions) :
                                 /\ regions[j] \cap ArrayBorder = {}
                                 /\ Cardinality(Around(regions[j])) = 1}}

\* C23: with fill-holes enabled the labels handed to the unclumping stage and
\* the final relabeled labels have no background region enclosed by a single
\* object (holes are filled before unclumping and again as the last step);
\* with fill-holes disabled no pixel is added at either point: the labels
\* handed to the unclumping stage cover the thresholded foreground exactly and
\* the final labels cover what the size filter was handed less what it
\* excluded
C23_FillTwice ==
    /\ pc = "separate" =>
           IF settings.fill_holes
           THEN EnclosedRegions(labeled_image) = {}
           ELSE NonZero(labeled_image) = binary_image(settings, image, collab)
    /\ pc \in {"store", "done"} =>
           IF settings.fill_holes
           THEN EnclosedRegions(labeled_image) = {}
           ELSE NonZero(labeled_image)
                    = NonZero(size_input) \ NonZero(size_excluded_labeled_image)
    /\ pc = "done" => objects.segmented = labeled_image

\* a finished run whose first fill closed a hole of the thresholded foreground
C23_Witness ==
    /\ pc = "done"
    /\ settings.fill_holes
    /\ EnclosedRegions(label(binary_image(settings, image, collab), Nbr8).labels) # {}
    /\ NonZero(objects.segmented) # {}

\* the pixels under the footprint centred on p
Under(p, footprint) ==
    {q \in Pix : <<RowOf(q) - RowOf(p), ColOf(q) - ColOf(p)>> \in footprint}

\* C24: in get_maxima at full resolution a pixel is a candidate maximum if and
\* only if its value is non-zero and not smaller than the value of any pixel
\* under its footprint; the output is non-zero only at candidates that
\* survived the shrinking and lie on the foreground, where it holds the value
\* of the image, and it is zero at every candidate on the background
C24_Maxima ==
    pc = "maxima" =>
        LET img == image.pixel_data
            footprint == maxima_mask(settings)
            candidates == {p \in Pix : /\ img[p] # 0
                                       /\ \A q \in Under(p, footprint) : img[p] >= img[q]}
        IN  /\ result.binary_maxima_image = candidates
            /\ \A p \in Pix :
                   result.maxima_image[p] =
                       IF p \in candidates /\ p \in result.shrunk_image
                          /\ labeled_image[p] # 0
                       THEN img[p] ELSE 0

\* a plateau of candidates shrunk to one pixel, a candidate on the background
\* discarded and a peak kept
C24_Witness ==
    /\ pc = "maxima"
    /\ \E p \in result.binary_maxima_image : labeled_image[p] = 0
    /\ \E p \in result.binary_maxima_image :
           p \notin result.shrunk_image /\ labeled_image[p] # 0
    /\ \E p \in Pix : result.maxima_image[p] # 0
    /\ \E p \in Pix : image.pixel_data[p] # 0 /\ p \notin result.binary_maxima_image

\* the settings of the run with another smoothing filter size and diameter range
Resmoothed ==
    {[settings EXCEPT !.automatic_smoothing = f[1], !.smoothing_filter_size = f[2],
                      !.size_min = r[1], !.size_max = r[2]] :
        f \in {<<TRUE, 0>>} \cup {<<FALSE, size>> : size \in ManualSmoothing},
        r \in SizeRanges}

\* C25 (as claimed): the blurred image that run() compares against the
\* threshold is the same for every smoothing filter size (automatic or manual,
\* 0 included) and every diameter range
C25_HardCodedBlur ==
    pc = "separate" =>
        \A other \in Resmoothed :
            smooth_image(other, image.pixel_data, image.mask, <<1, 1>>)
                = smooth_image(settings, image.pixel_data, image.mask, <<1, 1>>)

\* C26 (as claimed): the object_count returned on the watershed path is the
\* number of distinct non-zero labels of the returned label map, and no label
\* in 1..object_count is missing (every seed owns at least its own pixel)
C26_CountIsLabels ==
    /\ Watershed => LabelsOf(labeled_image) = 1..object_count
    /\ pc = "marked" => result.labels \ {0} = 1..object_count

\* C28 (as claimed): for any number of maxima clusters every cluster's id in
\* the 16-bit marker array is negative and differs from the id of every other
\* cluster
C28_MarkerIds ==
    pc = "marked" =>
        /\ \A k \in 1..object_count : result.markers[k] < 0
        /\ Cardinality({result.markers[k] : k \in 1..object_count}) = object_count

\* C27 (as claimed): every label of the map that run() passes to
\* filter_on_size is between 0 and the object_count passed with it, on the
\* fast path and on the watershed path (whose labels are the negated markers)
C27_LabelsInTable ==
    /\ pc = "filter_size" => \A p \in Pix : labeled_image[p] \in 0..object_count
    /\ pc = "marked" => \A l \in result.labels : l \in 0..object_count

\* the object l of the label map is outside the size range min..max (diameters)
OutOfRange(labels, l, min, max) ==
    LET area == 4 * PixelCount(labels, l) * PiDen
    IN  area < PiNum * min * min \/ area > PiNum * max * max

\* C29: border exclusion comes before size exclusion: the label map given to
\* filter_on_size holds no pixel of an object removed by the border filter, no
\* object is in both excluded maps, and with both exclusions enabled an object
\* that touches the array border and is outside the size range is, whole, in
\* the border-excluded map and has no pixel in the size-excluded map
C29_BorderFirst ==
    pc \in {"relabel", "store", "done"} =>
        /\ NonZero(size_input) \cap NonZero(border_excluded_labeled_image) = {}
        /\ LabelsOf(size_excluded_labeled_image)
               \cap LabelsOf(border_excluded_labeled_image) = {}
        /\ (settings.exclude_border_objects /\ settings.exclude_size) =>
               \A l \in TouchingArrayBorder(unedited_labels) :
                   OutOfRange(unedited_labels, l, settings.size_min, settings.size_max) =>
                       \A p \in Pix : unedited_labels[p] = l =>
                           /\ border_excluded_labeled_image[p] = l
                           /\ size_excluded_labeled_image[p] = 0
                           /\ size_input[p] = 0

C29_Witness ==
    /\ pc = "relabel"
    /\ settings.exclude_border_objects
    /\ settings.exclude_size
    /\ \E l \in TouchingArrayBorder(unedited_labels) :
           OutOfRange(unedited_labels, l, settings.size_min, settings.size_max)
    /\ NonZero(size_excluded_labeled_image) # {}
    /\ NonZero(labeled_image) # {}

\* the call was for a pipeline of Matlab revision 12 or of revision 1..4 of
\* this program
SupportedSaved ==
    \/ result.saved[1] /\ result.saved[2] = 12
    \/ ~result.saved[1] /\ result.saved[2] \in 1..variable_revision_number

\* C30: upgrade_settings returns, for a pipeline of Matlab revision 12 or of
\* revision 1, 2, 3 or 4, revision 4, from_matlab False and as many values as
\* settings() has, and has gone through every revision between the saved one
\* and 4, in order
C30_Upgraded ==
    (pc = "upgraded" /\ SupportedSaved) =>
        /\ result.variable_revision_number = variable_revision_number
        /\ result.from_matlab = FALSE
        /\ Len(result.setting_values) = Len(settings_returned)
        /\ Len(settings_returned) = 29
        /\ LET first == IF result.saved[1] THEN 1 ELSE result.saved[2] + 1
           IN  result.steps =
                   [i \in 1..(variable_revision_number + 1 - first) |-> first + i - 1]

C30_Witness ==
    /\ pc = "upgraded"
    /\ result.saved[1]
    /\ result.saved[2] = 12
    /\ Len(result.saved[3]) = 19
    /\ Get(result.saved[3], THRESHOLD_METHOD_VAR) = "MaskImage"
    /\ Get(result.saved[3], SMOOTHING_SIZE_VAR) = AUTOMATIC
    /\ result.steps = <<1, 2, 3, 4>>
    /\ Len(result.setting_values) = 29
====
